---- MODULE Spec2Model ----
(***************************************************************************)
(* google-photos-sync-mac: the synchronisation pipeline of                 *)
(* google_photos_sync_mac.py (main and its helpers) as a state machine.    *)
(*                                                                         *)
(*   SpecPlan  the remote listing loop and the reconciliation of main,     *)
(*             on rich listings (pages, duplicates, missing fields)        *)
(*   Spec      one whole run of main: local listing, the loop over the     *)
(*             accounts, downloads, import, end-of-run cleanup             *)
(*   SpecRetry    one request through the HTTPAdapter with its Retry       *)
(*   SpecTime     the end of download_file: strptime, mktime, utime, rename*)
(*   SpecListing  the dry runs of main, with fair listing requests         *)
(***************************************************************************)
EXTENDS Integers, Sequences, FiniteSets, TLC

(***************************************************************************)
(* Bounds of the model                                                     *)
(***************************************************************************)
MaxPages == 2
MaxItems == 3
MaxRunPages == 2
MaxIncidents == 1
MaxNonDefault == 1
MaxOverrun == 2

(***************************************************************************)
(* Program constants                                                       *)
(***************************************************************************)
default_max_retries_per_request == 3

process_wait_sleep_time == 5
process_wait_completion_time == 600

\* Python's None, where the other values of the variable are strings
None == "None"

(***************************************************************************)
(* Filenames are sequences of character codes, so that str.lower() is a    *)
(* computation: "A" = <<65>>, "a" = <<97>>, "b" = <<98>>.                  *)
(***************************************************************************)
LowerChar(c) == IF c \in 65..90 THEN c + 32 ELSE c

Lower(s) == [i \in DOMAIN s |-> LowerChar(s[i])]

Names == {<<65>>, <<97>>, <<98>>}

(***************************************************************************)
(* A Python dict: a sequence of <<key, value>> pairs in insertion order;   *)
(* assigning to an existing key keeps its position and replaces the value. *)
(***************************************************************************)
DictKeys(d) == {d[i][1] : i \in DOMAIN d}

DictGet(d, k) == d[CHOOSE i \in DOMAIN d : d[i][1] = k][2]

DictSetFirstWins(d, k, v) ==
    IF k \in DictKeys(d) THEN d ELSE Append(d, <<k, v>>)

DictSet(d, k, v) ==
    IF k \in DictKeys(d)
    THEN [i \in DOMAIN d |-> IF d[i][1] = k THEN <<k, v>> ELSE d[i]]
    ELSE Append(d, <<k, v>>)

(***************************************************************************)
(* A JSON object is a record; a key the object lacks is a field the record  *)
(* lacks ('filename' in media_item  is  "filename" \in DOMAIN media_item).  *)
(***************************************************************************)
MediaItem(f, m, u) == [filename |-> f, mimeType |-> m, baseUrl |-> u]

NamelessItem(m, u) == [mimeType |-> m, baseUrl |-> u]

RECURSIVE ParseItems(_, _)
ParseItems(media_items, photos) ==
    IF media_items = <<>> THEN photos
    ELSE LET media_item_meta_data == Head(media_items)
         IN  ParseItems(Tail(media_items),
                 IF "filename" \in DOMAIN media_item_meta_data
                 THEN DictSet(photos, media_item_meta_data.filename,
                              media_item_meta_data)
                 ELSE photos)

ParsePhotosNoItemsClears(response_content, photos) ==
    IF "mediaItems" \in DOMAIN response_content
    THEN ParseItems(response_content.mediaItems, photos)
    ELSE <<>>

\* parse_get_mediaitems_response: the photos dict after the call
ParsePhotos(response_content, photos) ==
    IF "mediaItems" \in DOMAIN response_content
    THEN ParseItems(response_content.mediaItems, photos)
    ELSE photos

\* parse_get_mediaitems_response: the value returned
ParseNextPageToken(response_content) ==
    IF "nextPageToken" \in DOMAIN response_content
    THEN response_content.nextPageToken
    ELSE None

AccumulatePageFresh(response_content, photos) ==
    ParsePhotos(response_content, <<>>)

\* main passes the one photos dict of the account to every page's parse
AccumulatePage(response_content, photos) ==
    ParsePhotos(response_content, photos)

(***************************************************************************)
(* The local index: the keys the listing strategies build.                 *)
(***************************************************************************)
IndexKeyNoFold(filename, case_sensitive) == filename

IndexKey(filename, case_sensitive) ==
    IF case_sensitive THEN filename ELSE Lower(filename)

BuildIndex(files, case_sensitive) ==
    {IndexKey(f, case_sensitive) : f \in files}

(***************************************************************************)
(* Reconciliation: the loop of main that fills photos_to_download.         *)
(***************************************************************************)
NeedToDownloadNoFold(filename, disk, case_sensitive) ==
    filename \notin disk

NeedToDownload(filename, disk, case_sensitive) ==
    IF case_sensitive
    THEN filename \notin disk
    ELSE Lower(filename) \notin disk

RECURSIVE PlanLoop(_, _, _, _, _, _)
PlanLoop(photos, i, plan, disk, case_sensitive, max_downloads) ==
    IF i > Len(photos) THEN plan
    ELSE LET filename == photos[i][1]
             plan2 == IF NeedToDownload(filename, disk, case_sensitive)
                      THEN DictSet(plan, filename, DictGet(photos, filename))
                      ELSE plan
         IN  IF max_downloads > 0 /\ Len(plan2) >= max_downloads
             THEN plan2
             ELSE PlanLoop(photos, i + 1, plan2, disk, case_sensitive,
                           max_downloads)

PlanDownloads(photos, disk, case_sensitive, max_downloads) ==
    PlanLoop(photos, 1, <<>>, disk, case_sensitive, max_downloads)

(***************************************************************************)
(* Configuration: the options of parse_arguments that main reads.          *)
(***************************************************************************)
DefaultArgs ==
    [batch_mode |-> FALSE, dry_run |-> FALSE, keep_downloads |-> FALSE,
     verbose |-> 0, case_sensitive |-> FALSE, max_downloads |-> -1]

MaxDownloadsChoices == {-1, 0, 1, 2}

(***************************************************************************)
(* Inputs of SpecPlan                                                      *)
(***************************************************************************)
\* a MIME type "class/subtype" is the pair <<class, subtype>>
ImageJpeg == <<"image", "jpeg">>

VideoMp4 == <<"video", "mp4">>

ApplicationPdf == <<"application", "pdf">>

PlanItems ==
    {MediaItem(<<65>>, ImageJpeg, 1), MediaItem(<<97>>, ImageJpeg, 2),
     MediaItem(<<97>>, VideoMp4, 3), MediaItem(<<98>>, VideoMp4, 4),
     NamelessItem(ImageJpeg, 5)}

PageTokens == {"tokX", "tokY"}

SeqsUpTo(S, n) == UNION {[1..k -> S] : k \in 0..n}

\* the JSON bodies a mediaItems response can have
Responses(items, n) ==
    {[mediaItems |-> ms] : ms \in SeqsUpTo(items, n)}
        \cup {[mediaItems |-> ms, nextPageToken |-> t] :
                ms \in SeqsUpTo(items, n), t \in PageTokens}
        \cup {[nextPageToken |-> t] : t \in PageTokens}
        \cup {[error |-> "status"]}

LocalFileSets == {{<<97>>}, {<<65>>, <<98>>}, {<<98>>}}

VARIABLES
    args,                  \* the parsed options
    pc,                    \* where main is
    photo_files_on_disk,   \* the local index: [is_none, keys]
    photos,                \* the account's remote listing (dict)
    next_page_token,       \* the token parse_get_mediaitems_response returned
    photos_to_download,    \* the download plan (dict)
    received,              \* history: the mediaItems of every page received
    pages_fetched,         \* history: the number of listing requests made
    users,                 \* get_users(args): the nicknames, in order
    library,               \* the Photos library on disk
    list_proc,             \* the AppleScript listing process
    waited,                \* seconds spent in the current polling loop
    user_idx,              \* position of the loop over the accounts
    staging,               \* per nickname: the photos cache directory
    token_file,            \* per nickname: access_token.json
    persister_token,       \* TokenPersister._token of the current account
    token,                 \* the local variable token of main
    session,               \* the OAuth2Session: None or its token
    incidents,             \* what the environment did so far besides
                           \* answering plainly: incidents, failures, delays
    last_request,          \* the most recent API request
    dl_idx,                \* position of the loop over photos_to_download
    dl,                    \* locals of the running download_file call
    num_successful_downloads,
    plan_defined,          \* whether main's photos_to_download is bound yet
    import_proc,           \* the osascript import process
    crash,                 \* the exception that ended the run, if any
    http,                  \* one request inside the session's HTTPAdapter
    last_response          \* history: the JSON body of the latest response
                           \* of the listing loop

planVars == <<photos, next_page_token, photos_to_download, received,
              pages_fetched>>

listVars == <<list_proc, waited>>

tokenVars == <<token_file, persister_token, token, session, incidents>>

dlVars == <<dl_idx, dl, num_successful_downloads, plan_defined>>

runVars == <<users, library, list_proc, waited, user_idx, staging,
             token_file, persister_token, token, session, incidents,
             last_request, dl_idx, dl, num_successful_downloads,
             plan_defined, import_proc, crash, http>>

vars == <<args, pc, photo_files_on_disk, photos, next_page_token,
          photos_to_download, received, pages_fetched, runVars,
          last_response>>

NoneIndex == [is_none |-> TRUE, keys |-> {}]

SomeIndex(keys) == [is_none |-> FALSE, keys |-> keys]

RECURSIVE Flatten(_)
Flatten(pages) ==
    IF pages = <<>> THEN <<>> ELSE Head(pages) \o Flatten(Tail(pages))

ItemsOf(response_content) ==
    IF "mediaItems" \in DOMAIN response_content
    THEN response_content.mediaItems
    ELSE <<>>

(***************************************************************************)
(* Inputs of a run                                                         *)
(***************************************************************************)
AllUsers == {"u1", "u2"}

DefaultUsers == <<"u1", "u2">>

UserLists == {<<>>, <<"u1">>, DefaultUsers}

\* the library: Photos.sqlite ("absent", "ok", "bad_schema"), a Masters
\* directory with a subdirectory, and the files of the library
DefaultLibrary == [sqlite |-> "ok", masters |-> FALSE, files |-> {<<67>>}]

Libraries ==
    {DefaultLibrary,
     [sqlite |-> "ok", masters |-> FALSE, files |-> {}],
     [sqlite |-> "bad_schema", masters |-> TRUE, files |-> {<<67>>}],
     [sqlite |-> "absent", masters |-> TRUE, files |-> {<<67>>}],
     [sqlite |-> "absent", masters |-> FALSE, files |-> {<<67>>}],
     [sqlite |-> "absent", masters |-> FALSE, files |-> {}]}

\* a token dict; a token variable is <<>> (None) or <<token>>
Token(n) == [access_token |-> n]

StoredToken == <<Token(0)>>

\* the token session.fetch_token returns after an interactive authorization
FetchedToken == <<Token(10)>>

\* a file of a staging directory: its name, whether it is a temporary file
\* of download_file, and what was written to it
File(name, temp, body) == [name |-> name, temp |-> temp, body |-> body]

OldFile == File(<<111>>, FALSE, "old")

NoDir == [exists |-> FALSE, files |-> {}]

Dir(files) == [exists |-> TRUE, files |-> files]

NoRequest ==
    [kind |-> "none", callsite_auth |-> <<>>, current |-> <<>>,
     page_token |-> None, url |-> <<>>]

NoDownload == [step |-> "idle", status |-> "none"]

RunArgs ==
    [batch_mode : BOOLEAN, dry_run : BOOLEAN, keep_downloads : BOOLEAN,
     verbose : {0, 2}, case_sensitive : BOOLEAN, max_downloads : {-1, 1}]

\* the number of inputs of a run that differ from the default run
\* (--batch-mode aside, which only matters next to a missing token)
Differs(x, y) == IF x = y THEN 0 ELSE 1

Deviations(a, us, lib, tf, st) ==
    Differs(a.dry_run, DefaultArgs.dry_run)
    + Differs(a.keep_downloads, DefaultArgs.keep_downloads)
    + Differs(a.verbose, DefaultArgs.verbose)
    + Differs(a.case_sensitive, DefaultArgs.case_sensitive)
    + Differs(a.max_downloads, DefaultArgs.max_downloads)
    + Differs(us, DefaultUsers)
    + Differs(lib, DefaultLibrary)
    + Differs(tf["u1"], StoredToken)
    + Differs(tf["u2"], StoredToken)
    + Differs(st["u1"], NoDir)

\* no request is inside the adapter
NoHttp ==
    [state |-> "idle", method |-> "GET", max_retries |-> 0, total |-> 0,
     attempts |-> <<>>, response |-> 0]

\* no response was received yet
NoResponse == [nothing |-> "received"]

\* the variables of a run at their values before main starts
IdleRun ==
    /\ list_proc = "none"
    /\ waited = 0
    /\ user_idx = 0
    /\ persister_token = <<>>
    /\ token = <<>>
    /\ session = <<>>
    /\ incidents = 0
    /\ last_request = NoRequest
    /\ dl_idx = 0
    /\ dl = NoDownload
    /\ num_successful_downloads = 0
    /\ plan_defined = FALSE
    /\ import_proc = "none"
    /\ crash = None
    /\ http = NoHttp
    /\ last_response = NoResponse

\* list_library_photos_sqlite
SqliteResult(lib, case_sensitive) ==
    IF lib.sqlite = "ok"
    THEN SomeIndex(BuildIndex(lib.files, case_sensitive))
    ELSE NoneIndex

\* list_library_photos_filesystem
FilesystemResult(lib, case_sensitive) ==
    IF lib.masters
    THEN SomeIndex(BuildIndex(lib.files, case_sensitive))
    ELSE NoneIndex

(***************************************************************************)
(* SpecPlan: listing loop and reconciliation of one account                *)
(***************************************************************************)
InitPlan ==
    /\ \E cs \in BOOLEAN, m \in MaxDownloadsChoices, files \in LocalFileSets :
          /\ args = [DefaultArgs EXCEPT !.case_sensitive = cs,
                                        !.max_downloads = m]
          /\ library = [DefaultLibrary EXCEPT !.files = files]
          /\ photo_files_on_disk =
                SqliteResult([DefaultLibrary EXCEPT !.files = files], cs)
    /\ pc = "plan_list"
    /\ photos = <<>>
    /\ next_page_token = None
    /\ photos_to_download = <<>>
    /\ received = <<>>
    /\ pages_fetched = 0
    /\ users = <<>>
    /\ staging = [u \in AllUsers |-> NoDir]
    /\ token_file = [u \in AllUsers |-> <<>>]
    /\ IdleRun

\* one request of the listing loop and the parse of its response
PlanFetchPage ==
    /\ pc = "plan_list"
    /\ pages_fetched < MaxPages
    /\ \E response_content \in
             Responses(PlanItems, MaxItems - Len(Flatten(received))) :
          /\ pages_fetched + 1 = MaxPages
                => "nextPageToken" \notin DOMAIN response_content
          /\ photos' = AccumulatePage(response_content, photos)
          /\ next_page_token' = ParseNextPageToken(response_content)
          /\ received' = Append(received, ItemsOf(response_content))
          /\ last_response' = response_content
          /\ pc' = IF ParseNextPageToken(response_content) # None
                   THEN "plan_list" ELSE "plan_reconcile"
    /\ pages_fetched' = pages_fetched + 1
    /\ UNCHANGED <<args, photo_files_on_disk, photos_to_download, runVars>>

PlanReconcile ==
    /\ pc = "plan_reconcile"
    /\ photos_to_download' =
          PlanDownloads(photos, photo_files_on_disk.keys,
                        args.case_sensitive, args.max_downloads)
    /\ pc' = "plan_done"
    /\ UNCHANGED <<args, photo_files_on_disk, photos, next_page_token,
                   received, pages_fetched, runVars, last_response>>

\* every planned file is downloaded and imported, so that the Photos library
\* holds it under its filename; then a second run on the same remote
\* listing: the local listing, the reconciliation, the downloads (each
\* planned file succeeds or not) and the import, which starts only when a
\* download succeeded
PlanRerun ==
    /\ pc = "plan_done"
    /\ library' = [library EXCEPT
                      !.files = @ \cup DictKeys(photos_to_download)]
    /\ photo_files_on_disk' = SqliteResult(library', args.case_sensitive)
    /\ photos_to_download' =
          PlanDownloads(photos, photo_files_on_disk'.keys,
                        args.case_sensitive, args.max_downloads)
    /\ num_successful_downloads' \in 0..Len(photos_to_download')
    /\ import_proc' = IF num_successful_downloads' > 0
                      THEN "running" ELSE "none"
    /\ pc' = "rerun_done"
    /\ UNCHANGED <<args, photos, next_page_token, received, pages_fetched,
                   users, listVars, user_idx, staging, tokenVars,
                   last_request, dl_idx, dl, plan_defined, crash, http,
                   last_response>>

NextPlan == PlanFetchPage \/ PlanReconcile \/ PlanRerun

SpecPlan == InitPlan /\ [][NextPlan]_vars

(***************************************************************************)
(* Properties of the listing loop and the reconciliation (SpecPlan)        *)
(***************************************************************************)
AllReceived == Flatten(received)

\* the positions of the items of all that carry filename f
PositionsOf(all, f) ==
    {i \in DOMAIN all : "filename" \in DOMAIN all[i] /\ all[i].filename = f}

LastReceived(all, f) ==
    LET positions == PositionsOf(all, f)
    IN  all[CHOOSE i \in positions : \A j \in positions : j <= i]

MissingKeys ==
    {f \in DictKeys(photos) :
        IndexKey(f, args.case_sensitive) \notin photo_files_on_disk.keys}

\* C1: with a negative max_downloads the plan holds exactly the remote
\* filenames whose key (the filename, lower-cased unless case-sensitive) is
\* not a key of the local index, each once and with its remote record.
ReconcileUncapped ==
    (pc = "plan_done" /\ args.max_downloads < 0) =>
        /\ DictKeys(photos_to_download) = MissingKeys
        /\ Len(photos_to_download) = Cardinality(MissingKeys)
        /\ \A f \in MissingKeys :
              DictGet(photos_to_download, f) = DictGet(photos, f)

\* an uncapped plan that takes one remote file and leaves out another whose
\* name matches a local key only after case folding
ReconcileUncappedWitness ==
    /\ pc = "plan_done"
    /\ args.max_downloads < 0
    /\ ~args.case_sensitive
    /\ photos_to_download # <<>>
    /\ \E f \in DictKeys(photos) :
          /\ Lower(f) # f
          /\ f \notin photo_files_on_disk.keys
          /\ f \notin DictKeys(photos_to_download)

\* C2: whenever max_downloads is non-negative (0 included) the plan holds at
\* most max_downloads entries.
DownloadCap ==
    (pc = "plan_done" /\ args.max_downloads >= 0) =>
        Len(photos_to_download) <= args.max_downloads

\* C3: whatever the split into pages, the accumulated mapping has the
\* filenames and the record per filename of one page holding all the items
\* in page order; the record of a filename is the last item received with
\* it, and that is the one the plan holds.
PaginationEquivalence ==
    LET all == AllReceived
        single == ParsePhotos([mediaItems |-> all], <<>>)
    IN  /\ DictKeys(photos) = DictKeys(single)
        /\ DictKeys(photos) = {f \in Names : PositionsOf(all, f) # {}}
        /\ Len(photos) = Cardinality(DictKeys(photos))
        /\ \A f \in DictKeys(photos) :
              /\ DictGet(photos, f) = DictGet(single, f)
              /\ DictGet(photos, f) = LastReceived(all, f)
        /\ pc = "plan_done" =>
              \A f \in DictKeys(photos_to_download) :
                  DictGet(photos_to_download, f) = LastReceived(all, f)

\* the same filename on two different pages with different records, an item
\* without filename between them, and that filename planned
PaginationWitness ==
    /\ pc = "plan_done"
    /\ Len(received) = MaxPages
    /\ \E i \in DOMAIN AllReceived : "filename" \notin DOMAIN AllReceived[i]
    /\ \E p, q \in DOMAIN received :
          /\ p < q
          /\ \E i \in DOMAIN received[p], j \in DOMAIN received[q] :
                /\ "filename" \in DOMAIN received[p][i]
                /\ "filename" \in DOMAIN received[q][j]
                /\ received[p][i].filename = received[q][j].filename
                /\ received[p][i] # received[q][j]
                /\ received[p][i].filename \in DictKeys(photos_to_download)

\* what a listing request of a run can be answered with
RunPageOne ==
    <<MediaItem(<<97>>, ImageJpeg, 1), MediaItem(<<98>>, VideoMp4, 2)>>

RunPageTwo ==
    <<MediaItem(<<67>>, ImageJpeg, 3), MediaItem(<<100>>, ApplicationPdf, 4)>>

RunResponses ==
    {[mediaItems |-> ms] : ms \in {<<>>, RunPageOne, RunPageTwo}}
        \cup {[mediaItems |-> ms, nextPageToken |-> t] :
                ms \in {RunPageOne, RunPageTwo}, t \in PageTokens}
        \cup {[nextPageToken |-> t] : t \in PageTokens}
        \cup {[error |-> "status"]}

Cost(happens) == IF happens THEN 1 ELSE 0

(***************************************************************************)
(* Spec: a run of main                                                     *)
(***************************************************************************)
Init ==
    /\ args \in RunArgs
    /\ users \in UserLists
    /\ library \in Libraries
    /\ token_file \in [AllUsers -> {<<>>, StoredToken}]
    /\ staging \in [AllUsers -> {NoDir, Dir({OldFile})}]
    /\ staging["u1"] = staging["u2"]
    /\ Deviations(args, users, library, token_file, staging) <= MaxNonDefault
    /\ pc = "list_sqlite"
    /\ photo_files_on_disk = NoneIndex
    /\ photos = <<>>
    /\ next_page_token = None
    /\ photos_to_download = <<>>
    /\ received = <<>>
    /\ pages_fetched = 0
    /\ IdleRun

(***************************************************************************)
(* list_library_photos: the three strategies                               *)
(***************************************************************************)
ListSqliteThenAppleScript ==
    /\ pc = "list_sqlite"
    /\ photo_files_on_disk' = SqliteResult(library, args.case_sensitive)
    /\ pc' = IF SqliteResult(library, args.case_sensitive).is_none
             THEN "list_as" ELSE "list_check"
    /\ UNCHANGED <<args, planVars, runVars, last_response>>

\* list_library_photos: strategy 1, and strategy 2 next if it gave None
ListSqlite ==
    /\ pc = "list_sqlite"
    /\ photo_files_on_disk' = SqliteResult(library, args.case_sensitive)
    /\ pc' = IF SqliteResult(library, args.case_sensitive).is_none
             THEN "list_fs" ELSE "list_check"
    /\ UNCHANGED <<args, planVars, runVars, last_response>>

ListFilesystem ==
    /\ pc = "list_fs"
    /\ photo_files_on_disk' = FilesystemResult(library, args.case_sensitive)
    /\ pc' = IF FilesystemResult(library, args.case_sensitive).is_none
             THEN "list_as" ELSE "list_check"
    /\ UNCHANGED <<args, planVars, runVars, last_response>>

\* applescript.run(list_script, background=True)
ListAppleScriptStart ==
    /\ pc = "list_as"
    /\ list_proc' = "running"
    /\ waited' = 0
    /\ pc' = "list_wait"
    /\ UNCHANGED <<args, photo_files_on_disk, planVars, users, library,
                   user_idx, staging, tokenVars, last_request, dlVars,
                   import_proc, crash, http, last_response>>

\* the external process ends (or not) on its own
ListProcessEnds ==
    /\ list_proc = "running"
    /\ list_proc' = "done"
    /\ UNCHANGED <<args, pc, photo_files_on_disk, planVars, users, library,
                   waited, user_idx, staging, tokenVars, last_request, dlVars,
                   import_proc, crash, http, last_response>>

\* while list_process.running: sleep(process_wait_sleep_time)
ListAppleScriptPoll ==
    /\ pc = "list_wait"
    /\ list_proc = "running"
    /\ waited < process_wait_completion_time
                    + MaxOverrun * process_wait_sleep_time
    /\ waited' = waited + process_wait_sleep_time
    /\ UNCHANGED <<args, pc, photo_files_on_disk, planVars, users, library,
                   list_proc, user_idx, staging, tokenVars, last_request,
                   dlVars, import_proc, crash, http, last_response>>

\* the loop is left and the lines of the output become the index
ListAppleScriptRead ==
    /\ pc = "list_wait"
    /\ list_proc = "done"
    /\ photo_files_on_disk' =
          SomeIndex(BuildIndex(library.files, args.case_sensitive))
    /\ waited' = 0
    /\ pc' = "list_check"
    /\ UNCHANGED <<args, planVars, users, library, list_proc, user_idx,
                   staging, tokenVars, last_request, dlVars, import_proc,
                   crash, http, last_response>>

ListCheckNoneOnly ==
    /\ pc = "list_check"
    /\ pc' = IF photo_files_on_disk.is_none
             THEN "exit_error" ELSE "next_user"
    /\ UNCHANGED <<args, photo_files_on_disk, planVars, runVars,
                   last_response>>

\* main: error_print when the index is None or empty
ListCheck ==
    /\ pc = "list_check"
    /\ pc' = IF photo_files_on_disk.is_none \/ photo_files_on_disk.keys = {}
             THEN "exit_error" ELSE "next_user"
    /\ UNCHANGED <<args, photo_files_on_disk, planVars, runVars,
                   last_response>>

(***************************************************************************)
(* The loop over the accounts: staging directory and session               *)
(***************************************************************************)
CurrentUser == users[user_idx]

EmptiedStagingKeepsFiles(dir) == Dir(dir.files)

\* if user_photos_dir.exists(): shutil.rmtree(...); user_photos_dir.mkdir()
EmptiedStaging(dir) == Dir({})

\* for nickname in get_users(args): ... up to TokenPersister(user_cache_dir)
StartAccount ==
    /\ pc = "next_user"
    /\ user_idx < Len(users)
    /\ user_idx' = user_idx + 1
    /\ staging' = [staging EXCEPT
                      ![users[user_idx + 1]] =
                          EmptiedStaging(staging[users[user_idx + 1]])]
    /\ persister_token' = <<>>
    /\ pc' = "auth"
    /\ UNCHANGED <<args, photo_files_on_disk, planVars, users, library,
                   listVars, token_file, token, session, incidents,
                   last_request, dlVars, import_proc, crash, http,
                   last_response>>

\* TokenPersister.load_token
LoadToken(cached, file) == IF cached = <<>> THEN file ELSE cached

\* create_session with a stored token: the session silently reuses it
CreateSessionStored ==
    /\ pc = "auth"
    /\ LoadToken(persister_token, token_file[CurrentUser]) # <<>>
    /\ persister_token' = LoadToken(persister_token, token_file[CurrentUser])
    /\ session' = LoadToken(persister_token, token_file[CurrentUser])
    /\ pc' = "list_first"
    /\ UNCHANGED <<args, photo_files_on_disk, planVars, users, library,
                   listVars, user_idx, staging, token_file, token, incidents,
                   last_request, dlVars, import_proc, crash, http,
                   last_response>>

\* create_session without a token, interactive: request_new_token, whose
\* fetch_token either raises or gives a token that save_token persists
CreateSessionInteractive ==
    /\ pc = "auth"
    /\ LoadToken(persister_token, token_file[CurrentUser]) = <<>>
    /\ ~args.batch_mode
    /\ \/ /\ persister_token' = FetchedToken
          /\ token_file' = [token_file EXCEPT ![CurrentUser] = FetchedToken]
          /\ session' = FetchedToken
          /\ pc' = "list_first"
          /\ UNCHANGED <<crash, incidents>>
       \/ /\ incidents < MaxIncidents
          /\ incidents' = incidents + 1
          /\ crash' = "fetch_token"
          /\ pc' = "crashed"
          /\ UNCHANGED <<persister_token, token_file, session>>
    /\ UNCHANGED <<args, photo_files_on_disk, planVars, users, library,
                   listVars, user_idx, staging, token, last_request, dlVars,
                   import_proc, http, last_response>>

CreateSessionBatchPrompts ==
    /\ pc = "auth"
    /\ LoadToken(persister_token, token_file[CurrentUser]) = <<>>
    /\ args.batch_mode
    /\ persister_token' = StoredToken
    /\ token_file' = [token_file EXCEPT ![CurrentUser] = StoredToken]
    /\ session' = StoredToken
    /\ pc' = "list_first"
    /\ UNCHANGED <<args, photo_files_on_disk, planVars, users, library,
                   listVars, user_idx, staging, token, incidents,
                   last_request, dlVars, import_proc, crash, http,
                   last_response>>

\* create_session without a token in batch mode returns None: continue
CreateSessionBatch ==
    /\ pc = "auth"
    /\ LoadToken(persister_token, token_file[CurrentUser]) = <<>>
    /\ args.batch_mode
    /\ session' = <<>>
    /\ pc' = "next_user"
    /\ UNCHANGED <<args, photo_files_on_disk, planVars, users, library,
                   listVars, user_idx, staging, token_file, persister_token,
                   token, incidents, last_request, dlVars, import_proc,
                   crash, http, last_response>>

(***************************************************************************)
(* Remote listing and reconciliation of the current account                *)
(***************************************************************************)
\* OAuth2Session refreshing a stale token: a new token dict
Refreshed(tok) == <<Token(tok[1].access_token + 1)>>

MaybeRefreshNoSave(refresh) ==
    IF refresh
    THEN /\ session' = Refreshed(session)
         /\ UNCHANGED <<persister_token, token_file>>
    ELSE UNCHANGED <<session, persister_token, token_file>>

\* the automatic refresh of a request, with token_updater=token_persister:
\* the session and the persister get the new token, the file is rewritten
MaybeRefresh(refresh) ==
    IF refresh
    THEN /\ session' = Refreshed(session)
         /\ persister_token' = Refreshed(session)
         /\ token_file' = [token_file EXCEPT
                              ![CurrentUser] = Refreshed(session)]
    ELSE UNCHANGED <<session, persister_token, token_file>>

\* headers={'Authorization': 'Bearer '+token['access_token']}
BearerHeader(tok) == <<tok[1].access_token>>

ListRequest(first, tok, page_token) ==
    /\ token' = tok
    /\ last_request' =
          [kind |-> "list", callsite_auth |-> BearerHeader(tok),
           current |-> BearerHeader(persister_token),
           page_token |-> page_token, url |-> <<>>]
    /\ pages_fetched' = IF first THEN 1 ELSE pages_fetched + 1
    /\ \E refresh \in BOOLEAN, raises \in {None, "session.get", "json.loads"} :
          /\ incidents + Cost(refresh) + Cost(raises # None) <= MaxIncidents
          /\ incidents' = incidents + Cost(refresh) + Cost(raises # None)
          /\ MaybeRefresh(refresh)
          /\ IF raises # None
             THEN /\ crash' = raises
                  /\ pc' = "crashed"
                  /\ UNCHANGED <<photos, next_page_token>>
             ELSE \E response_content \in RunResponses :
                    /\ (IF first THEN 1 ELSE pages_fetched + 1) >= MaxRunPages
                          => "nextPageToken" \notin DOMAIN response_content
                    /\ photos' = AccumulatePage(response_content,
                                      IF first THEN <<>> ELSE photos)
                    /\ next_page_token' =
                          ParseNextPageToken(response_content)
                    /\ pc' = IF ParseNextPageToken(response_content) # None
                             THEN "list_more" ELSE "reconcile"
                    /\ crash' = crash
    /\ UNCHANGED <<args, photo_files_on_disk, photos_to_download, received,
                   users, library, listVars, user_idx, staging, dlVars,
                   import_proc, http, last_response>>

\* photos = dict(); token = token_persister.load_token(); the first request
ListFirstPage ==
    /\ pc = "list_first"
    /\ ListRequest(TRUE, LoadToken(persister_token, token_file[CurrentUser]),
                   None)

ListNextPageNoToken ==
    /\ pc = "list_more"
    /\ ListRequest(FALSE, token, None)

\* while next_page_token != None: the follow-up request
ListNextPage ==
    /\ pc = "list_more"
    /\ ListRequest(FALSE, token, next_page_token)

ReconcileIgnoresDryRun ==
    /\ pc = "reconcile"
    /\ photos_to_download' =
          PlanDownloads(photos, photo_files_on_disk.keys,
                        args.case_sensitive, args.max_downloads)
    /\ plan_defined' = TRUE
    /\ pc' = "download"
    /\ dl_idx' = 1
    /\ num_successful_downloads' = 0
    /\ UNCHANGED <<args, photo_files_on_disk, photos, next_page_token,
                   received, pages_fetched, users, library, listVars,
                   user_idx, staging, tokenVars, last_request, dl,
                   import_proc, crash, http, last_response>>

\* the comparison loop; then the branch on args.dry_run (the dry run prints
\* the plan and the loop over the accounts goes on)
Reconcile ==
    /\ pc = "reconcile"
    /\ photos_to_download' =
          PlanDownloads(photos, photo_files_on_disk.keys,
                        args.case_sensitive, args.max_downloads)
    /\ plan_defined' = TRUE
    /\ IF args.dry_run
       THEN /\ pc' = "next_user"
            /\ UNCHANGED <<dl_idx, num_successful_downloads>>
       ELSE /\ pc' = "download"
            /\ dl_idx' = 1
            /\ num_successful_downloads' = 0
    /\ UNCHANGED <<args, photo_files_on_disk, photos, next_page_token,
                   received, pages_fetched, users, library, listVars,
                   user_idx, staging, tokenVars, last_request, dl,
                   import_proc, crash, http, last_response>>

(***************************************************************************)
(* Downloads of the current account                                        *)
(***************************************************************************)
PlannedName == photos_to_download[dl_idx][1]

PlannedItem == photos_to_download[dl_idx][2]

UrlSuffixAlwaysD(mime_type) ==
    IF mime_type[1] \in {"image", "video"} THEN "=d" ELSE None

\* mime_type.startswith('image') / ('video'); None: the item is skipped
UrlSuffix(mime_type) ==
    IF mime_type[1] = "image" THEN "=d"
    ELSE IF mime_type[1] = "video" THEN "=dv"
    ELSE None

\* the name tempfile.NamedTemporaryFile gives the file of one download
TempName(filename) == <<0>> \o filename

WithFile(dir, file) ==
    Dir({f \in dir.files : f.name # file.name} \cup {file})

WithoutFile(dir, name) == Dir({f \in dir.files : f.name # name})

\* an item of unknown media type: continue
DownloadSkip ==
    /\ pc = "download"
    /\ dl_idx <= Len(photos_to_download)
    /\ UrlSuffix(PlannedItem.mimeType) = None
    /\ dl_idx' = dl_idx + 1
    /\ UNCHANGED <<args, pc, photo_files_on_disk, planVars, users, library,
                   listVars, user_idx, staging, tokenVars, last_request, dl,
                   num_successful_downloads, plan_defined, import_proc,
                   crash, http, last_response>>

\* download_file up to the creation of the temporary file: session.get is
\* outside the try block, so what it raises leaves download_file and main
DownloadGet ==
    /\ pc = "download"
    /\ dl_idx <= Len(photos_to_download)
    /\ UrlSuffix(PlannedItem.mimeType) # None
    /\ last_request' =
          [kind |-> "media", callsite_auth |-> <<>>,
           current |-> BearerHeader(persister_token), page_token |-> None,
           url |-> <<PlannedItem.baseUrl, UrlSuffix(PlannedItem.mimeType)>>]
    /\ \E refresh \in BOOLEAN, outcome \in {"ok", "error", "raises"} :
          /\ incidents + Cost(refresh) + Cost(outcome # "ok") <= MaxIncidents
          /\ incidents' = incidents + Cost(refresh) + Cost(outcome # "ok")
          /\ MaybeRefresh(refresh)
          /\ IF outcome = "raises"
             THEN /\ crash' = "download_file"
                  /\ pc' = "crashed"
                  /\ UNCHANGED <<staging, dl>>
             ELSE /\ dl' = [step |-> "stream", status |-> outcome]
                  /\ staging' = [staging EXCEPT ![CurrentUser] =
                        WithFile(@, File(TempName(PlannedName), TRUE,
                                        "empty"))]
                  /\ pc' = "dl_stream"
                  /\ crash' = crash
    /\ UNCHANGED <<args, photo_files_on_disk, planVars, users, library,
                   listVars, user_idx, token, dl_idx,
                   num_successful_downloads, plan_defined, import_proc, http,
                   last_response>>

DownloadStreamIntoFinalName ==
    /\ pc = "dl_stream"
    /\ \/ /\ staging' = [staging EXCEPT ![CurrentUser] =
                WithFile(@, File(TempName(PlannedName), TRUE,
                     IF dl.status = "ok" THEN "media" ELSE "error_page"))]
          /\ dl' = [dl EXCEPT !.step = "finish"]
          /\ pc' = "dl_finish"
          /\ UNCHANGED <<dl_idx, incidents>>
       \/ /\ incidents < MaxIncidents
          /\ incidents' = incidents + 1
          /\ staging' = [staging EXCEPT ![CurrentUser] =
                WithFile(WithoutFile(@, TempName(PlannedName)),
                         File(PlannedName, FALSE, "partial"))]
          /\ dl' = NoDownload
          /\ pc' = "download"
          /\ dl_idx' = dl_idx + 1
    /\ UNCHANGED <<args, photo_files_on_disk, planVars, users, library,
                   listVars, user_idx, token_file, persister_token, token,
                   session, last_request, num_successful_downloads,
                   plan_defined, import_proc, crash, http, last_response>>

\* the body of the response is written to the temporary file; an exception
\* while streaming is caught and download_file returns False
DownloadStream ==
    /\ pc = "dl_stream"
    /\ \/ /\ staging' = [staging EXCEPT ![CurrentUser] =
                WithFile(@, File(TempName(PlannedName), TRUE,
                     IF dl.status = "ok" THEN "media" ELSE "error_page"))]
          /\ dl' = [dl EXCEPT !.step = "finish"]
          /\ pc' = "dl_finish"
          /\ UNCHANGED <<dl_idx, incidents>>
       \/ /\ incidents < MaxIncidents
          /\ incidents' = incidents + 1
          /\ staging' = [staging EXCEPT ![CurrentUser] =
                WithFile(@, File(TempName(PlannedName), TRUE, "partial"))]
          /\ dl' = NoDownload
          /\ pc' = "download"
          /\ dl_idx' = dl_idx + 1
    /\ UNCHANGED <<args, photo_files_on_disk, planVars, users, library,
                   listVars, user_idx, token_file, persister_token, token,
                   session, last_request, num_successful_downloads,
                   plan_defined, import_proc, crash, http, last_response>>

\* the rename to the filename: download_file returns True, or the rename
\* raises, which is caught, and download_file returns False
DownloadFinish ==
    /\ pc = "dl_finish"
    /\ \/ /\ staging' = [staging EXCEPT ![CurrentUser] =
                WithFile(WithoutFile(@, TempName(PlannedName)),
                    File(PlannedName, FALSE,
                      IF dl.status = "ok" THEN "media" ELSE "error_page"))]
          /\ num_successful_downloads' = num_successful_downloads + 1
          /\ incidents' = incidents
       \/ /\ incidents < MaxIncidents
          /\ incidents' = incidents + 1
          /\ UNCHANGED <<staging, num_successful_downloads>>
    /\ dl' = NoDownload
    /\ pc' = "download"
    /\ dl_idx' = dl_idx + 1
    /\ UNCHANGED <<args, photo_files_on_disk, planVars, users, library,
                   listVars, user_idx, token_file, persister_token, token,
                   session, last_request, plan_defined, import_proc, crash,
                   http, last_response>>

\* after the last item: import_photos starts osascript when something was
\* downloaded, else the import is skipped
DownloadsDone ==
    /\ pc = "download"
    /\ dl_idx > Len(photos_to_download)
    /\ IF num_successful_downloads > 0
       THEN /\ import_proc' = "running"
            /\ pc' = "import_poll"
       ELSE /\ import_proc' = import_proc
            /\ pc' = "next_user"
    /\ waited' = 0
    /\ UNCHANGED <<args, photo_files_on_disk, planVars, users, library,
                   list_proc, user_idx, staging, tokenVars, last_request,
                   dlVars, crash, http, last_response>>

(***************************************************************************)
(* import_photos: the wait for the osascript process                       *)
(***************************************************************************)
\* the external process ends (or not) on its own: within the first poll
\* interval, or not before end_time
ImportProcessEnds ==
    /\ import_proc = "running"
    /\ waited = 0 \/ waited >= process_wait_completion_time
    /\ import_proc' = "exited"
    /\ UNCHANGED <<args, pc, photo_files_on_disk, planVars, users, library,
                   listVars, user_idx, staging, tokenVars, last_request,
                   dlVars, crash, http, last_response>>

\* while p.poll() is None and time() < end_time
ImportLoopGoesOn ==
    /\ import_proc = "running"
    /\ waited < process_wait_completion_time

\* p.communicate(timeout=process_wait_sleep_time) raising TimeoutExpired
\* (the first time is an incident: the import outlasts a poll interval);
\* with verbose >= 2 the handler evaluates  time - start_time  (a function
\* minus a float): TypeError, which leaves the with block
ImportCommunicateTimeout ==
    /\ pc = "import_poll"
    /\ ImportLoopGoesOn
    /\ incidents + Cost(waited = 0) <= MaxIncidents
    /\ incidents' = incidents + Cost(waited = 0)
    /\ waited' = waited + process_wait_sleep_time
    /\ IF args.verbose >= 2
       THEN /\ crash' = "TypeError"
            /\ pc' = "import_exit"
       ELSE UNCHANGED <<crash, pc>>
    /\ UNCHANGED <<args, photo_files_on_disk, planVars, users, library,
                   list_proc, user_idx, staging, token_file, persister_token,
                   token, session, last_request, dlVars, import_proc, http,
                   last_response>>

\* the loop is left: the process has ended or end_time is reached
ImportLoopExit ==
    /\ pc = "import_poll"
    /\ ~ImportLoopGoesOn
    /\ pc' = "import_exit"
    /\ UNCHANGED <<args, photo_files_on_disk, planVars, runVars,
                   last_response>>

\* the end of  with Popen(...) as p : Popen.__exit__ calls p.wait() without
\* a timeout, so the block is left only once the process has ended; then
\* import_photos returns, or the pending exception leaves main
ImportExit ==
    /\ pc = "import_exit"
    /\ import_proc = "exited"
    /\ import_proc' = "none"
    /\ waited' = 0
    /\ pc' = IF crash # None THEN "crashed" ELSE "next_user"
    /\ UNCHANGED <<args, photo_files_on_disk, planVars, users, library,
                   list_proc, user_idx, staging, tokenVars, last_request,
                   dlVars, crash, http, last_response>>

(***************************************************************************)
(* The end of the run                                                      *)
(***************************************************************************)
\* shutil.rmtree(user_photos_dir) for every nickname of get_users(args)
AllStagingRemoved(st, us) ==
    [u \in AllUsers |->
        IF \E i \in DOMAIN us : us[i] = u THEN NoDir ELSE st[u]]

CleanupIgnoresKeep ==
    /\ pc = "next_user"
    /\ user_idx >= Len(users)
    /\ IF args.dry_run
       THEN /\ pc' = "done"
            /\ UNCHANGED <<staging, crash>>
       ELSE IF ~plan_defined
       THEN /\ pc' = "crashed"
            /\ crash' = "NameError"
            /\ staging' = staging
       ELSE /\ pc' = "done"
            /\ crash' = crash
            /\ staging' =
                  IF Len(photos_to_download) > 0
                  THEN AllStagingRemoved(staging, users)
                  ELSE staging
    /\ UNCHANGED <<args, photo_files_on_disk, planVars, users, library,
                   listVars, user_idx, tokenVars, last_request, dlVars,
                   import_proc, http, last_response>>

\* the code after the loop over the accounts; photos_to_download is the
\* variable the last reconciled account left (unbound if there was none)
Cleanup ==
    /\ pc = "next_user"
    /\ user_idx >= Len(users)
    /\ IF args.dry_run
       THEN /\ pc' = "done"
            /\ UNCHANGED <<staging, crash>>
       ELSE IF ~plan_defined
       THEN /\ pc' = "crashed"
            /\ crash' = "NameError"
            /\ staging' = staging
       ELSE /\ pc' = "done"
            /\ crash' = crash
            /\ staging' =
                  IF Len(photos_to_download) > 0 /\ ~args.keep_downloads
                  THEN AllStagingRemoved(staging, users)
                  ELSE staging
    /\ UNCHANGED <<args, photo_files_on_disk, planVars, users, library,
                   listVars, user_idx, tokenVars, last_request, dlVars,
                   import_proc, http, last_response>>

Next ==
    \/ ListSqlite
    \/ ListFilesystem
    \/ ListAppleScriptStart
    \/ ListProcessEnds
    \/ ListAppleScriptPoll
    \/ ListAppleScriptRead
    \/ ListCheck
    \/ StartAccount
    \/ CreateSessionStored
    \/ CreateSessionInteractive
    \/ CreateSessionBatch
    \/ ListFirstPage
    \/ ListNextPage
    \/ Reconcile
    \/ DownloadSkip
    \/ DownloadGet
    \/ DownloadStream
    \/ DownloadFinish
    \/ DownloadsDone
    \/ ImportProcessEnds
    \/ ImportCommunicateTimeout
    \/ ImportLoopExit
    \/ ImportExit
    \/ Cleanup

Spec == Init /\ [][Next]_vars

(***************************************************************************)
(* Properties of a run (Spec)                                              *)
(***************************************************************************)
\* main is between the start of an account and the end of its import
AccountPcs ==
    {"auth", "list_first", "list_more", "reconcile", "download",
     "dl_stream", "dl_finish", "import_poll", "import_exit"}

\* C4: a failing download is reported as False for that item and the later
\* items are still attempted: no exception leaves download_file and ends
\* the run.
DownloadFaultIsolation ==
    ~(pc = "crashed" /\ crash = "download_file")

\* C5: a failure at a step of one account never stops the run while
\* accounts after it are still to be processed.
AccountIsolation ==
    ~(/\ pc = "crashed"
      /\ crash \in {"fetch_token", "session.get", "json.loads",
                    "download_file", "TypeError"}
      /\ user_idx < Len(users))

\* C6: at the end of a run that is neither a dry run nor asked to keep the
\* downloads, no processed account's staging directory exists.
StagingRemovedAtEnd ==
    (pc = "done" /\ ~args.dry_run /\ ~args.keep_downloads) =>
        \A i \in 1..user_idx : ~staging[users[i]].exists

\* C7: the staging directory of the account being processed exists and is
\* empty until its first download starts, and from then to the end of its
\* import it holds no file of an earlier run.
StagingEmptiedAtStart ==
    pc \in AccountPcs =>
        /\ staging[CurrentUser].exists
        /\ pc \in {"auth", "list_first", "list_more", "reconcile"}
              => staging[CurrentUser].files = {}
        /\ \A f \in staging[CurrentUser].files : f.body # "old"

\* the import of the first account is running while the directory of the
\* second still holds the file an earlier run kept
StagingEmptiedWitness ==
    /\ pc = "import_poll"
    /\ user_idx = 1
    /\ Len(users) = 2
    /\ OldFile \in staging[users[2]].files
    /\ staging[users[1]].files # {}

\* C8: once end_time is reached with the import process still running,
\* import_photos is no longer waiting for it.
ImportWaitBounded ==
    ~(/\ pc = "import_exit"
      /\ import_proc = "running"
      /\ waited >= process_wait_completion_time)

\* C9: the polling of the AppleScript listing process stops after an upper
\* bound on the total wait.
ListWaitBounded ==
    pc = "list_wait" => waited <= process_wait_completion_time

\* C10: the Authorization header a call site builds carries the access
\* token that is current when the request is made.
BearerTokenCurrent ==
    last_request.callsite_auth # <<>> =>
        last_request.callsite_auth = last_request.current

\* main is in the download loop of the current account
DownloadPcs == {"download", "dl_stream", "dl_finish"}

\* the files download_file completed for the account at position i
DownloadedFor(i) ==
    {f.name : f \in {g \in staging[users[i]].files :
                        ~g.temp /\ g.body = "media"}}

\* C11: a remote item of a later account whose filename is that of a photo
\* already downloaded for an earlier account of the same run is not in the
\* later account's plan and is not downloaded again.
CrossAccountSkip ==
    pc \in DownloadPcs =>
        \A i \in 1..(user_idx - 1) :
            /\ DownloadedFor(i) \cap DictKeys(photos_to_download) = {}
            /\ DownloadedFor(i) \cap DownloadedFor(user_idx) = {}

\* C12: in case-insensitive mode filenames differing only in letter case are
\* one key: the plan never holds two filenames that are equal after case
\* folding, and no remote file is planned whose case-folded name is a key of
\* the local index; in case-sensitive mode a remote file is kept out of the
\* plan only by a local key equal to its name.
CasePolicy ==
    pc = "plan_done" =>
        IF args.case_sensitive
        THEN \A f \in DictKeys(photos_to_download) :
                f \notin photo_files_on_disk.keys
        ELSE /\ \A f \in DictKeys(photos_to_download) :
                   Lower(f) \notin photo_files_on_disk.keys
             /\ \A f, g \in DictKeys(photos_to_download) :
                   Lower(f) = Lower(g) => f = g

\* the plan holds every missing file: it is shorter than a positive
\* max_downloads, or max_downloads is negative
PlanNotCut ==
    \/ args.max_downloads < 0
    \/ Len(photos_to_download) < args.max_downloads

\* C13 as stated: after every file of a run's plan is downloaded and
\* imported, a second run on the same remote listing computes an empty plan
\* and starts no import.
IdempotentRerunAlways ==
    [][pc' = "rerun_done" =>
          /\ photos_to_download' = <<>>
          /\ num_successful_downloads' = 0
          /\ import_proc' = "none"]_vars

\* C13 amended: the same, for a first plan that --max-downloads did not cut.
IdempotentRerun ==
    [][(pc' = "rerun_done" /\ PlanNotCut) =>
          /\ photos_to_download' = <<>>
          /\ num_successful_downloads' = 0
          /\ import_proc' = "none"]_vars

\* a second run with an empty plan on a library that holds imported files
\* (no library holds more than two files before an import)
IdempotentRerunWitness ==
    /\ pc = "rerun_done"
    /\ photos_to_download = <<>>
    /\ import_proc = "none"
    /\ Cardinality(library.files) > 2
    /\ \E f \in DictKeys(photos) : f \in library.files

\* main is in import_photos for the current account
ImportPcs == {"import_poll", "import_exit"}

\* the planned items whose media type gives a download URL
Fetchable ==
    {i \in DOMAIN photos_to_download :
        UrlSuffix(photos_to_download[i][2].mimeType) # None}

\* C14: the import of an account runs only after a file of that account's
\* plan was downloaded successfully in this run; a download request is made
\* only for a planned item of a known media type, so an empty plan (or one
\* whose every item is skipped or fails) leads to no import.
NoSpuriousImport ==
    /\ pc \in ImportPcs =>
          /\ num_successful_downloads > 0
          /\ \E f \in staging[CurrentUser].files :
                /\ ~f.temp
                /\ f.body = "media"
                /\ f.name \in DictKeys(photos_to_download)
    /\ pc \notin ImportPcs => import_proc = "none"
    /\ pc \in {"dl_stream", "dl_finish"} => dl_idx \in Fetchable
    /\ (pc = "crashed" /\ crash = "download_file") => dl_idx \in Fetchable
    /\ (pc \in DownloadPcs /\ Fetchable = {}) =>
          /\ staging[CurrentUser].files = {}
          /\ num_successful_downloads = 0

\* this step issues a listing or a media request
RequestStep ==
    \/ pc = "list_first" /\ pc' # pc
    \/ pc = "list_more" /\ pages_fetched' # pages_fetched
    \/ pc = "download" /\ pc' \in {"dl_stream", "crashed"}

\* load_token finds no credential for the account main is authenticating
NoCredential ==
    /\ pc = "auth"
    /\ LoadToken(persister_token, token_file[CurrentUser]) = <<>>

\* C15: a request is issued only with a session made from the account's
\* credential; in batch mode an account without a stored credential is left
\* at once, with no prompt (no new credential), no request and no exception,
\* and the loop over the accounts goes on with the next one.
CredentialGate ==
    [][/\ RequestStep =>
             /\ session # <<>>
             /\ session = persister_token
             /\ token_file[CurrentUser] = session
       /\ (NoCredential /\ args.batch_mode) =>
             /\ ~RequestStep
             /\ pc' = "next_user"
             /\ user_idx' = user_idx
             /\ session' = <<>>
             /\ token_file' = token_file
             /\ last_request' = last_request
             /\ crash' = None]_vars

\* in batch mode the first account had no stored credential and the second
\* account has been listed
CredentialGateWitness ==
    /\ args.batch_mode
    /\ user_idx = 2
    /\ token_file["u1"] = <<>>
    /\ token_file["u2"] # <<>>
    /\ pc = "reconcile"
    /\ last_request.kind = "list"

(***************************************************************************)
(* SpecRetry: one request through the HTTPAdapter create_session mounts,   *)
(* with  Retry(total=args.max_retries, backoff_factor=0.1,                 *)
(* status_forcelist=[500, 502, 503, 504],                                  *)
(* method_whitelist=frozenset(['GET']), raise_on_status=False).            *)
(* The session sends GET (mediaItems, media) and, to refresh a token, POST.*)
(***************************************************************************)
status_forcelist == {500, 502, 503, 504}

method_whitelist == {"GET"}

raise_on_status == FALSE

\* arguments the call leaves at the defaults of urllib3's Retry
respect_retry_after_header == TRUE

RETRY_AFTER_STATUS_CODES == {413, 429, 503}

\* Retry.is_retry
IsRetry(method, status_code, has_retry_after, total) ==
    /\ method \in method_whitelist
    /\ \/ status_code \in status_forcelist
       \/ /\ total # 0
          /\ respect_retry_after_header
          /\ has_retry_after
          /\ status_code \in RETRY_AFTER_STATUS_CODES

\* the values of --max-retries, up to the default
RetryTotals == 0..default_max_retries_per_request

Methods == {"GET", "POST"}

Statuses == {200, 404, 429, 500, 502, 503, 504}

\* what one attempt ends with: a response, or (status 0) no connection
Attempt(status, has_retry_after) ==
    [status |-> status, retry_after |-> has_retry_after]

InitRetry ==
    /\ \E method \in Methods, max_retries \in RetryTotals :
          http = [state |-> "sending", method |-> method,
                  max_retries |-> max_retries, total |-> max_retries,
                  attempts |-> <<>>, response |-> 0]
    /\ args = DefaultArgs
    /\ pc = "request"
    /\ photo_files_on_disk = NoneIndex
    /\ photos = <<>>
    /\ next_page_token = None
    /\ photos_to_download = <<>>
    /\ received = <<>>
    /\ pages_fetched = 0
    /\ users = <<>>
    /\ library = DefaultLibrary
    /\ list_proc = "none"
    /\ waited = 0
    /\ user_idx = 0
    /\ staging = [u \in AllUsers |-> NoDir]
    /\ token_file = [u \in AllUsers |-> <<>>]
    /\ persister_token = <<>>
    /\ token = <<>>
    /\ session = <<>>
    /\ incidents = 0
    /\ last_request = NoRequest
    /\ dl_idx = 0
    /\ dl = NoDownload
    /\ num_successful_downloads = 0
    /\ plan_defined = FALSE
    /\ import_proc = "none"
    /\ crash = None
    /\ last_response = NoResponse

\* Retry.increment followed by is_exhausted: the attempt is repeated, or the
\* retries are used up (MaxRetryError inside urlopen)
HttpAfterIncrement(attempt, exhausted_state, response) ==
    IF http.total - 1 < 0
    THEN http' = [http EXCEPT !.attempts = Append(@, attempt),
                              !.total = @ - 1,
                              !.state = exhausted_state,
                              !.response = response]
    ELSE http' = [http EXCEPT !.attempts = Append(@, attempt),
                              !.total = @ - 1]

\* the server answers an attempt: urlopen asks is_retry; when the retries
\* are used up the response is returned unless raise_on_status
HttpResponse ==
    /\ http.state = "sending"
    /\ \E status \in Statuses, has_retry_after \in BOOLEAN :
          IF IsRetry(http.method, status, has_retry_after, http.total)
          THEN HttpAfterIncrement(Attempt(status, has_retry_after),
                   IF raise_on_status THEN "raised" ELSE "returned", status)
          ELSE http' = [http EXCEPT
                           !.attempts =
                               Append(@, Attempt(status, has_retry_after)),
                           !.state = "returned",
                           !.response = status]
    /\ UNCHANGED <<args, pc, photo_files_on_disk, planVars, users, library,
                   listVars, user_idx, staging, tokenVars, last_request,
                   dlVars, import_proc, crash, last_response>>

\* no connection for an attempt: increment counts it for every method, and
\* MaxRetryError reaches the caller as requests' ConnectionError
HttpConnectionError ==
    /\ http.state = "sending"
    /\ HttpAfterIncrement(Attempt(0, FALSE), "raised", 0)
    /\ UNCHANGED <<args, pc, photo_files_on_disk, planVars, users, library,
                   listVars, user_idx, staging, tokenVars, last_request,
                   dlVars, import_proc, crash, last_response>>

NextRetry == HttpResponse \/ HttpConnectionError

SpecRetry == InitRetry /\ [][NextRetry]_vars

(***************************************************************************)
(* Properties of a request (SpecRetry)                                     *)
(***************************************************************************)
\* the attempts that were followed by another attempt
Retried ==
    IF http.state = "sending"
    THEN DOMAIN http.attempts
    ELSE {i \in DOMAIN http.attempts : i < Len(http.attempts)}

\* C16: an attempt that got a response is repeated only for a GET answered
\* with 500, 502, 503 or 504, never after a 4xx response; a request is
\* retried at most max_retries times; when the retries are used up on
\* responses, the last response is returned and nothing is raised.
RetryPolicy ==
    /\ \A i \in Retried :
          http.attempts[i].status # 0 =>
              /\ http.method = "GET"
              /\ http.attempts[i].status \in {500, 502, 503, 504}
              /\ http.attempts[i].status \notin 400..499
    /\ Cardinality(Retried) <= http.max_retries
    /\ http.state = "returned" =>
          http.response = http.attempts[Len(http.attempts)].status
    /\ http.state = "raised" =>
          http.attempts[Len(http.attempts)].status = 0

\* main is past create_session for the current account
SessionPcs ==
    {"list_first", "list_more", "reconcile", "download", "dl_stream",
     "dl_finish", "import_poll", "import_exit"}

\* C17: once the session of an account exists (so before its first
\* request, also after an interactive authorization) and after every
\* refresh, load_token returns the session's newest credential, which
\* is the one last saved, and the token file holds that same credential.
CredentialPersistence ==
    pc \in SessionPcs =>
        /\ session # <<>>
        /\ LoadToken(persister_token, token_file[CurrentUser]) = session
        /\ token_file[CurrentUser] = session

\* a credential obtained interactively was refreshed during the first
\* request, and the file holds the refreshed credential
CredentialPersistenceWitness ==
    /\ pc = "list_more"
    /\ pages_fetched = 1
    /\ session = Refreshed(FetchedToken)
    /\ token_file[CurrentUser] = Refreshed(FetchedToken)

\* this step is download_file asking for url
FetchStep(url) ==
    /\ pc' \in {"dl_stream", "crashed"}
    /\ last_request'.kind = "media"
    /\ last_request'.url = url

\* C18: for the planned item the download loop is at, an image MIME type
\* gives a request for baseUrl followed by "=d", a video MIME type one for
\* baseUrl followed by "=dv", and any other MIME type gives no request and
\* no file: the loop goes on with the next item.
VariantByMimeType ==
    [][(pc = "download" /\ dl_idx <= Len(photos_to_download)) =>
          IF PlannedItem.mimeType[1] = "image"
          THEN FetchStep(<<PlannedItem.baseUrl, "=d">>)
          ELSE IF PlannedItem.mimeType[1] = "video"
          THEN FetchStep(<<PlannedItem.baseUrl, "=dv">>)
          ELSE /\ pc' = "download"
               /\ dl_idx' = dl_idx + 1
               /\ last_request' = last_request
               /\ staging' = staging
               /\ num_successful_downloads' = num_successful_downloads
               /\ crash' = None]_vars

\* the first planned item has another media type and was skipped, the
\* second was an image and is downloaded, the third is a video and its
\* request has been made
VariantByMimeTypeWitness ==
    /\ pc = "dl_stream"
    /\ dl_idx = 3
    /\ photos_to_download[1][2].mimeType = ApplicationPdf
    /\ photos_to_download[2][2].mimeType = ImageJpeg
    /\ photos_to_download[3][2].mimeType = VideoMp4
    /\ num_successful_downloads = 1
    /\ last_request.url = <<photos_to_download[3][2].baseUrl, "=dv">>

\* C19: the strategies are tried in the order sqlite, filesystem,
\* AppleScript, each only when every earlier one returned None, and the
\* index main gets is the result of the first that did not: a library
\* without Photos.sqlite but with a Masters subdirectory is listed by the
\* filesystem strategy, one with neither by the AppleScript strategy.
ListingFallbackOrder ==
    /\ pc = "list_fs" =>
          /\ library.sqlite # "ok"
          /\ photo_files_on_disk.is_none
    /\ pc \in {"list_as", "list_wait"} =>
          /\ library.sqlite # "ok"
          /\ ~library.masters
          /\ photo_files_on_disk.is_none
    /\ list_proc # "none" => (library.sqlite # "ok" /\ ~library.masters)
    /\ pc = "list_check" =>
          /\ photo_files_on_disk =
                SomeIndex({IF args.case_sensitive THEN f ELSE Lower(f) :
                              f \in library.files})
          /\ (library.sqlite # "ok" /\ ~library.masters) => list_proc = "done"

\* a library without Photos.sqlite but with a Masters subdirectory has been
\* listed, and no AppleScript process was started
ListingFallbackWitness ==
    /\ pc = "list_check"
    /\ library.sqlite = "absent"
    /\ library.masters
    /\ ~photo_files_on_disk.is_none
    /\ photo_files_on_disk.keys # {}
    /\ list_proc = "none"

\* main is still in list_library_photos or at the test of its result
ListingPcs == {"list_sqlite", "list_fs", "list_as", "list_wait", "list_check"}

\* C20: when the local listing gives no index (None, or no filename at all)
\* main stops with the error message before the first account: no request,
\* no download and no import; an account is only ever processed with a
\* non-empty local index.
NoSyncWithoutIndex ==
    /\ pc = "exit_error" =>
          /\ photo_files_on_disk.is_none \/ photo_files_on_disk.keys = {}
          /\ user_idx = 0
          /\ last_request = NoRequest
          /\ num_successful_downloads = 0
          /\ import_proc = "none"
          /\ \A u \in AllUsers : \A f \in staging[u].files : f.body = "old"
    /\ pc \notin ListingPcs \cup {"exit_error"} =>
          /\ ~photo_files_on_disk.is_none
          /\ photo_files_on_disk.keys # {}

\* neither Photos.sqlite nor Masters, and the AppleScript listing gave no
\* filename: main has stopped with the error
NoSyncWithoutIndexWitness ==
    /\ pc = "exit_error"
    /\ library.sqlite # "ok"
    /\ ~library.masters
    /\ list_proc = "done"
    /\ photo_files_on_disk.keys = {}
    /\ users # <<>>

\* C21: in a dry run no media request is made, nothing is downloaded or
\* staged, no import is started, and the end of the run deletes no staging
\* directory: the directory of every account the run started is still
\* there, as the start of the account left it.
DryRun ==
    args.dry_run =>
        /\ last_request.kind # "media"
        /\ pc \notin DownloadPcs \cup ImportPcs
        /\ dl = NoDownload
        /\ num_successful_downloads = 0
        /\ import_proc = "none"
        /\ \A i \in 1..user_idx : staging[users[i]] = Dir({})

\* a dry run over two accounts has ended, the last plan was not empty
DryRunWitness ==
    /\ args.dry_run
    /\ pc = "done"
    /\ user_idx = 2
    /\ Len(photos_to_download) > 1
    /\ staging[users[1]].exists

(***************************************************************************)
(* SpecTime: the end of one successful download_file call, from the        *)
(* streamed temporary file to the rename: strptime, mktime, os.utime.      *)
(* A timestamp is the sequence of its character codes.                     *)
(***************************************************************************)
\* what strptime raises, in the place of its result
ValueError == [raised |-> "ValueError"]

\* file_creation_timestamp = None: the item has no creationTime
NoTimestamp == <<>>

Digit(n) == 48 + n

TwoDigits(n) == <<Digit(n \div 10), Digit(n % 10)>>

FourDigits(n) == TwoDigits(n \div 100) \o TwoDigits(n % 100)

\* "YYYY-MM-DDTHH:MM:SSZ" as the API writes mediaMetadata.creationTime
Stamp(Y, m, d, H, M, S) ==
    FourDigits(Y) \o <<45>> \o TwoDigits(m) \o <<45>> \o TwoDigits(d)
        \o <<84>> \o TwoDigits(H) \o <<58>> \o TwoDigits(M) \o <<58>>
        \o TwoDigits(S) \o <<90>>

\* the same instant written with milliseconds: "...:SS.000Z"
StampMillis(Y, m, d, H, M, S) ==
    SubSeq(Stamp(Y, m, d, H, M, S), 1, 19) \o <<46, 48, 48, 48, 90>>

Timestamps ==
    {Stamp(Y, m, d, H, M, M) :
        Y \in {2020, 2021}, m \in {1, 2, 3, 12}, d \in {1, 29},
        H \in {0, 23}, M \in {0, 59}}
        \cup {StampMillis(2020, 1, 1, 0, 0, 0), Stamp(2020, 13, 1, 0, 0, 0)}

\* time.timezone of the machine: seconds west of UTC (UTC+1, UTC, UTC-5)
Timezones == {-3600, 0, 18000}

\* the times a new file has before os.utime: the time of the download
DownloadTime == 1700000000

IsLeap(y) == (y % 4 = 0 /\ y % 100 # 0) \/ y % 400 = 0

DaysInMonth(y, m) ==
    IF m = 2 THEN (IF IsLeap(y) THEN 29 ELSE 28)
    ELSE IF m \in {4, 6, 9, 11} THEN 30 ELSE 31

Num2(s, i) == (s[i] - 48) * 10 + (s[i + 1] - 48)

Num4(s, i) == Num2(s, i) * 100 + Num2(s, i + 2)

\* strptime(s, '%Y-%m-%dT%H:%M:%SZ') for a string whose fields have two
\* digits (four for the year): the struct_time, or ValueError
Strptime(s) ==
    IF \/ Len(s) # 20
       \/ s[5] # 45 \/ s[8] # 45 \/ s[11] # 84
       \/ s[14] # 58 \/ s[17] # 58 \/ s[20] # 90
       \/ \E i \in {1, 2, 3, 4, 6, 7, 9, 10, 12, 13, 15, 16, 18, 19} :
             s[i] \notin 48..57
    THEN ValueError
    ELSE LET t == [tm_year |-> Num4(s, 1), tm_mon |-> Num2(s, 6),
                   tm_mday |-> Num2(s, 9), tm_hour |-> Num2(s, 12),
                   tm_min |-> Num2(s, 15), tm_sec |-> Num2(s, 18)]
         IN  IF /\ t.tm_mon \in 1..12
                /\ t.tm_mday \in 1..DaysInMonth(t.tm_year, t.tm_mon)
                /\ t.tm_hour \in 0..23
                /\ t.tm_min \in 0..59
                /\ t.tm_sec \in 0..61
             THEN t
             ELSE ValueError

\* the leap years before year y
LeapsBefore(y) == (y - 1) \div 4 - (y - 1) \div 100 + (y - 1) \div 400

RECURSIVE DaysBeforeMonth(_, _)
DaysBeforeMonth(y, m) ==
    IF m = 1 THEN 0 ELSE DaysBeforeMonth(y, m - 1) + DaysInMonth(y, m - 1)

\* the days from 1970-01-01 to the date of t
DaysSinceEpoch(t) ==
    365 * (t.tm_year - 1970) + (LeapsBefore(t.tm_year) - LeapsBefore(1970))
        + DaysBeforeMonth(t.tm_year, t.tm_mon) + (t.tm_mday - 1)

\* the epoch second of the fields of t read as UTC
Timegm(t) ==
    DaysSinceEpoch(t) * 86400 + t.tm_hour * 3600 + t.tm_min * 60 + t.tm_sec

\* mktime(t): the fields of t are read as local time of the machine
Mktime(t, timezone) == Timegm(t) + timezone

\* a file with its access and modification time
TimedFile(name, temp, atime, mtime) ==
    [name |-> name, temp |-> temp, body |-> "media",
     atime |-> atime, mtime |-> mtime]

InitTime ==
    /\ \E ts \in Timestamps \cup {NoTimestamp}, tz \in Timezones :
          dl = [step |-> "utime", status |-> "ok",
                file_creation_timestamp |-> ts, timezone |-> tz]
    /\ args = DefaultArgs
    /\ pc = "dl_utime"
    /\ photo_files_on_disk = NoneIndex
    /\ photos = <<>>
    /\ next_page_token = None
    /\ photos_to_download = <<>>
    /\ received = <<>>
    /\ pages_fetched = 0
    /\ users = <<"u1">>
    /\ library = DefaultLibrary
    /\ list_proc = "none"
    /\ waited = 0
    /\ user_idx = 1
    /\ staging = [u \in AllUsers |->
                    IF u = "u1"
                    THEN Dir({TimedFile(TempName(<<97>>), TRUE,
                                        DownloadTime, DownloadTime)})
                    ELSE NoDir]
    /\ token_file = [u \in AllUsers |-> StoredToken]
    /\ persister_token = StoredToken
    /\ token = StoredToken
    /\ session = StoredToken
    /\ incidents = 0
    /\ last_request = NoRequest
    /\ dl_idx = 1
    /\ num_successful_downloads = 0
    /\ plan_defined = TRUE
    /\ import_proc = "none"
    /\ crash = None
    /\ http = NoHttp
    /\ last_response = NoResponse

\* if not file_creation_timestamp == None: strptime, mktime, os.utime on the
\* temporary file; ValueError is caught and the times stay as they are
DownloadSetTime ==
    /\ pc = "dl_utime"
    /\ staging' = [staging EXCEPT !["u1"] =
          IF dl.file_creation_timestamp = NoTimestamp
             \/ Strptime(dl.file_creation_timestamp) = ValueError
          THEN @
          ELSE LET file_creation_secs ==
                      Mktime(Strptime(dl.file_creation_timestamp),
                             dl.timezone)
               IN  Dir({TimedFile(f.name, f.temp, file_creation_secs,
                                  file_creation_secs) : f \in @.files})]
    /\ dl' = [dl EXCEPT !.step = "rename"]
    /\ pc' = "dl_rename"
    /\ UNCHANGED <<args, photo_files_on_disk, planVars, users, library,
                   listVars, user_idx, tokenVars, last_request, dl_idx,
                   num_successful_downloads, plan_defined, import_proc,
                   crash, http, last_response>>

\* temp_file_path.rename(directory / filename); downloaded = True
DownloadRename ==
    /\ pc = "dl_rename"
    /\ staging' = [staging EXCEPT !["u1"] =
          Dir({TimedFile(<<97>>, FALSE, f.atime, f.mtime) : f \in @.files})]
    /\ dl' = [dl EXCEPT !.step = "done"]
    /\ num_successful_downloads' = num_successful_downloads + 1
    /\ pc' = "dl_done"
    /\ UNCHANGED <<args, photo_files_on_disk, planVars, users, library,
                   listVars, user_idx, tokenVars, last_request, dl_idx,
                   plan_defined, import_proc, crash, http, last_response>>

NextTime == DownloadSetTime \/ DownloadRename

SpecTime == InitTime /\ [][NextTime]_vars

(***************************************************************************)
(* Properties of the file times (SpecTime)                                 *)
(***************************************************************************)
\* C22: when the capture timestamp is present and parses, the access time
\* and the modification time of the downloaded file are both the epoch
\* second of that instant in UTC, whatever the zone of the machine; for
\* "2020-01-01T00:00:00Z" that is 1577836800.
TimestampRestoration ==
    (/\ pc = "dl_done"
     /\ dl.file_creation_timestamp # NoTimestamp
     /\ Strptime(dl.file_creation_timestamp) # ValueError) =>
        \A f \in staging["u1"].files :
            /\ f.atime = Timegm(Strptime(dl.file_creation_timestamp))
            /\ f.mtime = Timegm(Strptime(dl.file_creation_timestamp))
            /\ dl.file_creation_timestamp = Stamp(2020, 1, 1, 0, 0, 0)
                  => f.mtime = 1577836800

\* this step is the start of account u: its staging directory is emptied
StartsAccount(u) ==
    /\ pc = "next_user"
    /\ pc' = "auth"
    /\ users[user_idx'] = u

\* C23: with --keep-downloads no step of the run removes a staging
\* directory, and no step removes a downloaded file from one, the end of the
\* run included; only the start of an account empties that account's
\* directory.
Retention ==
    [][args.keep_downloads =>
          \A u \in AllUsers :
              /\ staging[u].exists => staging'[u].exists
              /\ ~StartsAccount(u) =>
                    {f \in staging[u].files : ~f.temp}
                        \subseteq staging'[u].files]_vars

\* a run with --keep-downloads has ended after a non-empty last plan, and
\* the first account's directory still holds a downloaded file
RetentionWitness ==
    /\ args.keep_downloads
    /\ pc = "done"
    /\ user_idx = 2
    /\ Len(photos_to_download) > 0
    /\ \E f \in staging[users[1]].files : ~f.temp /\ f.body = "media"
    /\ staging[users[2]].exists

(***************************************************************************)
(* SpecListing: the dry runs of main from the loop over the accounts on    *)
(* (the local index is there): per account the session, the listing loop   *)
(* and the reconciliation, and nothing else. Once main is at a listing     *)
(* request it makes it: the thread runs on, and the server answers or the  *)
(* request raises.                                                         *)
(***************************************************************************)
InitListing ==
    /\ \E batch_mode \in BOOLEAN, max_downloads \in {-1, 1} :
          args = [DefaultArgs EXCEPT !.dry_run = TRUE,
                                     !.batch_mode = batch_mode,
                                     !.max_downloads = max_downloads]
    /\ users \in UserLists
    /\ library = DefaultLibrary
    /\ token_file \in [AllUsers -> {<<>>, StoredToken}]
    /\ staging = [u \in AllUsers |-> NoDir]
    /\ pc = "next_user"
    /\ photo_files_on_disk = SqliteResult(DefaultLibrary, FALSE)
    /\ photos = <<>>
    /\ next_page_token = None
    /\ photos_to_download = <<>>
    /\ received = <<>>
    /\ pages_fetched = 0
    /\ IdleRun

NextListing ==
    \/ StartAccount
    \/ CreateSessionStored
    \/ CreateSessionInteractive
    \/ CreateSessionBatch
    \/ ListFirstPage
    \/ ListNextPage
    \/ Reconcile
    \/ Cleanup

SpecListing ==
    InitListing /\ [][NextListing]_vars
        /\ WF_vars(ListFirstPage \/ ListNextPage)

\* this step is the first listing request of an account
FirstRequestStep == pc = "list_first" /\ pc' # "list_first"

\* this step is a follow-up listing request
FollowUpStep == pc = "list_more" /\ pages_fetched' = pages_fetched + 1

\* C24: the first listing request of an account carries no page token; a
\* follow-up request carries the token the parse of the preceding response
\* returned; each request is one more page; after a response another
\* request follows exactly when it gave a token, and once a response gave
\* none the listing is over: no listing request is made until the next
\* account. The server omitting the token at some page, a listing that
\* started ends (or an exception ends the run).
PaginationProtocol ==
    /\ [][/\ FirstRequestStep =>
                /\ last_request'.kind = "list"
                /\ last_request'.page_token = None
                /\ pages_fetched' = 1
          /\ FollowUpStep =>
                /\ next_page_token # None
                /\ last_request'.kind = "list"
                /\ last_request'.page_token = next_page_token
          /\ (pc \in {"list_first", "list_more"} /\ pc' # "crashed") =>
                /\ pc' = "list_more" <=> next_page_token' # None
                /\ pc' = "reconcile" <=> next_page_token' = None
          /\ pc \notin {"list_first", "list_more"} =>
                /\ pages_fetched' = pages_fetched
                /\ last_request'.kind = "list" => last_request' = last_request
                /\ pc' = "list_more" => pc = "list_more"]_vars
    /\ (pc = "list_first") ~> (pc \in {"reconcile", "crashed"})

\* a listing of two pages is over: the second request carried a token
PaginationProtocolWitness ==
    /\ pc = "reconcile"
    /\ pages_fetched = 2
    /\ last_request.kind = "list"
    /\ last_request.page_token \in PageTokens
    /\ next_page_token = None
    /\ Len(photos) > 2

(***************************************************************************)
(* Properties of the parse of one page (SpecPlan)                          *)
(***************************************************************************)
\* the items of a page that have a filename, in page order
Named(media_items) ==
    SelectSeq(media_items, LAMBDA item : "filename" \in DOMAIN item)

\* the filenames of the items of a page
NamesOf(media_items) ==
    {f \in Names : PositionsOf(media_items, f) # {}}

\* C25: the parse of a page adds every item that has a filename (the last
\* one per filename) and nothing else, as if the items without filename
\* were not on the page; a body without mediaItems adds nothing; the
\* entries under other filenames stay as they were; nothing is raised, the
\* token of the body is returned, and the loop goes on exactly when the
\* body had one.
PageParsingTolerance ==
    [][pages_fetched' = pages_fetched + 1 =>
          LET items == ItemsOf(last_response')
          IN  /\ DictKeys(photos') = DictKeys(photos) \cup NamesOf(items)
              /\ \A f \in NamesOf(items) :
                    DictGet(photos', f) = LastReceived(items, f)
              /\ \A f \in DictKeys(photos) \ NamesOf(items) :
                    DictGet(photos', f) = DictGet(photos, f)
              /\ photos' = ParsePhotos([mediaItems |-> Named(items)], photos)
              /\ "mediaItems" \notin DOMAIN last_response'
                    => photos' = photos
              /\ next_page_token' =
                    (IF "nextPageToken" \in DOMAIN last_response'
                     THEN last_response'.nextPageToken ELSE None)
              /\ pc' = "plan_list"
                    <=> "nextPageToken" \in DOMAIN last_response'
              /\ pc' = "plan_reconcile"
                    <=> "nextPageToken" \notin DOMAIN last_response'
              /\ crash' = None]_vars

\* the second page had an item without filename before an item with a new
\* filename: the mapping holds that one next to the entries of the first
\* page
PageParsingWitness ==
    /\ pages_fetched = 2
    /\ received[1] # <<>>
    /\ "mediaItems" \in DOMAIN last_response
    /\ Len(last_response.mediaItems) = 2
    /\ "filename" \notin DOMAIN last_response.mediaItems[1]
    /\ "filename" \in DOMAIN last_response.mediaItems[2]
    /\ last_response.mediaItems[2].filename \notin NamesOf(received[1])
    /\ Len(photos) = 2

\* the files of the current account's staging directory under a final name
FinalFiles == {f \in staging[CurrentUser].files : ~f.temp}

\* C26: a file under a final filename holds a whole response body, never
\* nothing or a part of one; while an item is being streamed or renamed no
\* file has its final filename yet; and download_file has returned True
\* exactly as often as a file was renamed to its final filename.
AtomicFinalisation ==
    pc \in DownloadPcs \cup ImportPcs =>
        /\ \A f \in FinalFiles : f.body \notin {"empty", "partial"}
        /\ pc \in {"dl_stream", "dl_finish"} =>
              \A f \in FinalFiles : f.name # PlannedName
        /\ num_successful_downloads = Cardinality(FinalFiles)
        /\ \A f \in FinalFiles : f.name \in DictKeys(photos_to_download)

\* the streaming of the first item failed, leaving a part of the body in
\* its temporary file, and the second item was renamed to its filename
AtomicFinalisationWitness ==
    /\ pc = "download"
    /\ dl_idx = 3
    /\ num_successful_downloads = 1
    /\ \E f \in staging[CurrentUser].files :
          /\ f.temp
          /\ f.body = "partial"
          /\ f.name = TempName(photos_to_download[1][1])
    /\ \E f \in FinalFiles : f.name = photos_to_download[2][1]

\* C27: when the import of an account runs, its staging directory holds the
\* files download_file completed in this run and nothing else: no temporary
\* file of a download that failed while streaming or renaming.
StagingHoldsOnlyCompleted ==
    pc \in ImportPcs =>
        /\ \A f \in staging[CurrentUser].files : ~f.temp
        /\ Cardinality(staging[CurrentUser].files) = num_successful_downloads

\* C28: download_file returns True, and the file is counted and left under
\* its final filename for the import, only when the server answered the
\* media request with a success status: no file under a final filename
\* holds the body of an error response, and every counted download is a
\* file with the media.
SuccessMeansFetched ==
    pc \in DownloadPcs \cup ImportPcs =>
        /\ \A f \in FinalFiles : f.body # "error_page"
        /\ num_successful_downloads
              <= Cardinality({f \in FinalFiles : f.body = "media"})

\* C29: a listing that gave an index without any filename (an index, not
\* None) does not stop the run: main goes on to the accounts, and the plan
\* of an account then holds every remote filename (max_downloads negative).
EmptyLibraryIsNoFailure ==
    (/\ ~photo_files_on_disk.is_none
     /\ photo_files_on_disk.keys = {}
     /\ pc \notin ListingPcs) =>
        /\ pc # "exit_error"
        /\ (pc \in DownloadPcs /\ args.max_downloads < 0) =>
              DictKeys(photos_to_download) = DictKeys(photos)

\* C30: a run that is not a dry run and in which no account reached the
\* reconciliation (no account, or every account skipped in batch mode for
\* lack of a credential) ends normally, without an exception; and what the
\* end of the run does with an account's staging directory depends on that
\* account only: not being asked to keep the downloads, it leaves no
\* directory with downloaded files behind, whatever another account's plan.
NothingToProcessEndsNormally ==
    /\ (~args.dry_run /\ ~plan_defined /\ user_idx = Len(users)) =>
           ~(pc = "crashed" /\ crash = "NameError")
    /\ (pc = "done" /\ ~args.dry_run /\ ~args.keep_downloads) =>
           \A i \in 1..user_idx :
               \A f \in staging[users[i]].files : f.temp

====
